---------------------------- MODULE Spec2Model ----------------------------
(***************************************************************************)
(* WiFi Gaming Monitor (network-monitor): the browser-side controller.     *)
(*                                                                         *)
(*   src/static/js/app.js   clock, quality watcher, shortcuts, visibility  *)
(*   src/unnamed/part_000   chart registry, short-term and long-term sync, *)
(*                          score panel, period selector                   *)
(*                                                                         *)
(* The specifications share the variables:                                 *)
(*   SpecWatcher  the event handlers of app.js, beside the short-term sync *)
(*                and the score panel's start-up update of part_000        *)
(*   SpecInput    key presses and visibility changes beside the short-term *)
(*                sync                                                     *)
(*   SpecTone     playAlertSound beside the quality watcher                *)
(*   SpecShort    the short-term sync, with malformed answers              *)
(*   SpecPanel    the score panel, with malformed answers and pages that   *)
(*                lack panel elements                                      *)
(*   Spec         the timers, clicks and fetch completions of part_000     *)
(*   SpecLive     the polling loops under fair timers                      *)
(*   SpecColor    the packet-loss bar colour callbacks of both loss charts *)
(* A specification leaves the variables of the other parts at their        *)
(* initial values.                                                         *)
(***************************************************************************)
EXTENDS Integers, Sequences, FiniteSets, TLC

VARIABLES
    \* ---- app.js
    lastQualityScore,     \* app.js:61
    hidden,               \* document.hidden, read at app.js:108
    timeText,             \* textContent of #current-time, app.js:10
    track,                \* observations so far are ExampleSeq[1..track]; -1 once they differ
    fired,                \* positions of the tracked run at which the alert was raised
    audioContext,         \* app.js:37
    contextsCreated,      \* audio contexts constructed so far
    \* ---- part_000
    latencyChart, lossChart,                  \* part_000:11-12
    historyPingChart, historyQualityChart,    \* part_000:191-192
    historyLossChart, historySignalChart,     \* part_000:193-194
    currentPeriod,        \* part_000:195
    activeBtns,           \* periods of the .period-btn elements carrying class 'active'
    panel,                \* the score-summary panel's elements
    shortQ, histQ, scoreQ,\* fetches in flight, oldest first, per endpoint
    overtaken,            \* per fetch of shortQ: the answer of a later fetch has been rendered
    started,              \* the start-up setTimeout callbacks that have run
    selected,             \* the period of the most recent click, "none" before the first
    \* ---- bar colour callbacks
    lossBarRaw, lossBarColor,                 \* the bar the short-term loss chart drew last
    historyLossBarRaw, historyLossBarColor,   \* the bar the long-term loss chart drew last
    \* ---- page and history
    dom,                  \* ids of the elements the page holds
    intervals,            \* the callbacks that setInterval has registered and nothing cleared
    lastEvent             \* the handler that ran last, its input and what it did

toneVars  == <<audioContext, contextsCreated>>
appVars   == <<lastQualityScore, hidden, timeText, track, fired, toneVars>>
chartVars == <<latencyChart, lossChart, historyPingChart, historyQualityChart,
               historyLossChart, historySignalChart>>
dashVars  == <<chartVars, currentPeriod, activeBtns, panel, shortQ, histQ, scoreQ,
               overtaken, started, selected>>
colorVars == <<lossBarRaw, lossBarColor, historyLossBarRaw, historyLossBarColor>>
pageVars  == <<dom, intervals>>
vars      == <<appVars, dashVars, colorVars, pageVars, lastEvent>>

-----------------------------------------------------------------------------
(* JavaScript values.  undefined, null and NaN are carried by a flag beside  *)
(* the value so that every field keeps one type.                            *)

Undefined == [def |-> FALSE, v |-> <<>>]
Array(s)  == [def |-> TRUE, v |-> s]

Max(a, b) == IF a >= b THEN a ELSE b


-----------------------------------------------------------------------------
(* app.js                                                                   *)

Digits == <<"0", "1", "2", "3", "4", "5", "6", "7", "8", "9">>
IsDigit(c) == \E i \in 1..Len(Digits) : Digits[i] = c
DigitVal(c) == (CHOOSE i \in 1..Len(Digits) : Digits[i] = c) - 1

RECURSIVE SkipSpace(_)
SkipSpace(t) == IF t # <<>> /\ Head(t) = " " THEN SkipSpace(Tail(t)) ELSE t

RECURSIVE DigitRun(_)
DigitRun(t) == IF t # <<>> /\ IsDigit(Head(t)) THEN <<Head(t)>> \o DigitRun(Tail(t)) ELSE <<>>

RECURSIVE DigitsValue(_)
DigitsValue(ds) ==
    IF ds = <<>> THEN 0
    ELSE 10 * DigitsValue(SubSeq(ds, 1, Len(ds) - 1)) + DigitVal(ds[Len(ds)])

(* parseInt(text): leading white space is skipped, one sign is read, then   *)
(* the longest run of decimal digits; NaN when that run is empty.           *)
parseInt(text) ==
    LET t    == SkipSpace(text)
        neg  == t # <<>> /\ Head(t) = "-"
        body == IF t # <<>> /\ Head(t) \in {"-", "+"} THEN Tail(t) ELSE t
        ds   == DigitRun(body)
    IN  IF ds = <<>> THEN [nan |-> TRUE, n |-> 0]
        ELSE [nan |-> FALSE, n |-> IF neg THEN 0 - DigitsValue(ds) ELSE DigitsValue(ds)]

(* app.js:77   parseInt(qualityScore.textContent) || 100                    *)
(* NaN and 0 are the falsy numbers.                                         *)
ScrapedScore(text) ==
    LET p == parseInt(text) IN IF p.nan \/ p.n = 0 THEN 100 ELSE p.n

(* A watcher that alerts on every low score, not on the crossing alone.     *)
ShouldAlertWhileLow(last, score) == score < 50

(* app.js:64   lastQualityScore >= 50 && score < 50                         *)
ShouldAlert(last, score) == last >= 50 /\ score < 50

(* A watcher that stores the score only when it alerts.                     *)
StoredOnlyOnAlert(last, score) == IF last >= 50 /\ score < 50 THEN score ELSE last

(* app.js:69   lastQualityScore = score                                     *)
StoredAfter(last, score) == score

(* The contents the quality-score region is rendered with.                  *)
Texts ==
    { <<"1", "0", "0">>, <<"7", "0">>, <<"4", "0">>, <<"3", "0">>, <<"6", "0">>,
      <<"4", "5">>, <<"5", "0">>, <<"4", "9">>, <<"0">>, <<" ", "4", "0">>,
      <<"4", "5", "%">>, <<"-", "5">>, <<"-", "-">>, <<>> }

TargetIds == {"quality-display", "metrics-grid"}
Keys      == {"r", "o", "R", "x"}
Times     == {"12:00:00", "12:00:01"}

(* The sequence of observations of the worked example.                      *)
ExampleSeq == <<100, 70, 40, 30, 60, 45>>

NoAppEvent ==
    [op |-> "none", text |-> <<>>, called |-> FALSE, score |-> 0, prev |-> 0,
     alert |-> FALSE, refresh |-> 0, overlay |-> 0, ctrl |-> FALSE, meta |-> FALSE,
     threw |-> FALSE, reused |-> FALSE]

(* app.js:73-80   the htmx:afterSwap listener, with checkForAlerts (63-70). *)
(* present: document.querySelector('.quality-score') found an element.     *)
AfterSwap(present, targetId, text) ==
    LET called == present /\ targetId = "quality-display"
        score  == ScrapedScore(text)
        alert  == called /\ ShouldAlert(lastQualityScore, score)
        onRun  == track >= 0 /\ track < Len(ExampleSeq) /\ score = ExampleSeq[track + 1]
    IN  /\ lastQualityScore' = IF called THEN StoredAfter(lastQualityScore, score)
                               ELSE lastQualityScore
        /\ track' = IF ~called THEN track ELSE IF onRun THEN track + 1 ELSE -1
        /\ fired' = IF ~called THEN fired
                    ELSE IF ~onRun THEN {}
                    ELSE IF alert THEN fired \cup {track + 1} ELSE fired
        /\ lastEvent' = [NoAppEvent EXCEPT !.op = "afterSwap", !.text = text,
                            !.called = called,
                            !.score = IF called THEN score ELSE 0,
                            !.prev = IF called THEN lastQualityScore ELSE 0,
                            !.alert = alert]
        /\ UNCHANGED <<hidden, timeText, toneVars, dashVars, colorVars, pageVars>>

(* A refresh shortcut that does not look at the modifier keys.              *)
KeyRefreshesAnyModifier(key, ctrl, meta) == IF key = "r" THEN 1 ELSE 0

(* app.js:83-93   the keydown listener.                                     *)
KeyRefreshes(key, ctrl, meta) == IF key = "r" /\ ~ctrl /\ ~meta THEN 1 ELSE 0
KeyOverlays(key, ctrl, meta)  == IF key = "o" /\ ~ctrl /\ ~meta THEN 1 ELSE 0

KeyDown(key, ctrl, meta) ==
    /\ lastEvent' = [NoAppEvent EXCEPT !.op = "keydown", !.text = <<key>>,
                        !.ctrl = ctrl, !.meta = meta,
                        !.refresh = KeyRefreshes(key, ctrl, meta),
                        !.overlay = KeyOverlays(key, ctrl, meta)]
    /\ UNCHANGED <<appVars, dashVars, colorVars, pageVars>>

(* A listener that clears the chart interval while the tab is hidden and    *)
(* sets it again, with a refresh, when the tab is shown.                    *)
VisibilityChangePausing ==
    /\ hidden' = ~hidden
    /\ intervals' = IF hidden' THEN intervals \ {"updateCharts"}
                    ELSE intervals \cup {"updateCharts"}
    /\ lastEvent' = [NoAppEvent EXCEPT !.op = "visibilitychange",
                        !.refresh = IF hidden' THEN 0 ELSE 1]
    /\ UNCHANGED <<lastQualityScore, timeText, track, fired, toneVars, dashVars, colorVars, dom>>

(* app.js:107-115   the visibilitychange listener; the event is raised when *)
(* document.hidden has changed.                                             *)
VisibilityChange ==
    /\ hidden' = ~hidden
    /\ lastEvent' = [NoAppEvent EXCEPT !.op = "visibilitychange",
                        !.refresh = IF hidden' THEN 0 ELSE 1]
    /\ UNCHANGED <<lastQualityScore, timeText, track, fired, toneVars, dashVars, colorVars, pageVars>>

MaxContexts == 3     \* audio contexts counted

(* A call that constructs a context whether or not one is held.             *)
NeedsContextAlways(ctx) == TRUE

(* app.js:40   if (!audioContext)                                           *)
NeedsContext(ctx) == ctx = "null"

(* app.js:39-58   playAlertSound.  ctxOk: the AudioContext constructor      *)
(* returns; oscOk: createOscillator and the calls after it return.  The     *)
(* function has no try block: what a call throws reaches its caller.        *)
PlayAlertSound(ctxOk, oscOk) ==
    LET creates == NeedsContext(audioContext) IN
    /\ contextsCreated < MaxContexts
    /\ audioContext' = IF creates /\ ctxOk THEN "context" ELSE audioContext
    /\ contextsCreated' = IF creates /\ ctxOk THEN contextsCreated + 1 ELSE contextsCreated
    /\ lastEvent' = [NoAppEvent EXCEPT !.op = "playAlertSound",
                        !.threw = (creates /\ ~ctxOk) \/ ~oscOk,
                        !.reused = ~creates]
    /\ UNCHANGED <<lastQualityScore, hidden, timeText, track, fired, dashVars,
                   colorVars, pageVars>>

(* app.js:6-12, 99   updateTime on its one-second interval.                 *)
UpdateTime(now) ==
    /\ "updateTime" \in intervals
    /\ timeText' = IF "current-time" \in dom THEN now ELSE timeText
    /\ lastEvent' = [NoAppEvent EXCEPT !.op = "updateTime"]
    /\ UNCHANGED <<lastQualityScore, hidden, track, fired, toneVars, dashVars, colorVars, pageVars>>

-----------------------------------------------------------------------------
(* part_000: the telemetry provider's answers                               *)

MaxLen      == 1     \* longest timestamps array of a generated answer
MaxTag      == 2     \* distinct generations of short-window data
MaxInFlight == 2     \* fetches in flight per endpoint

Periods == {"day", "week"}
PeriodNo(p) == IF p = "day" THEN 1 ELSE 2

(* The element i of the array of a field in the answer of generation tag.   *)
FieldNo(f) ==
    CASE f = "timestamps"  -> 1
      [] f = "ping"        -> 2
      [] f = "jitter"      -> 3
      [] f = "packet_loss" -> 4
      [] f = "quality"     -> 5
      [] f = "signal"      -> 6
Sample(f, tag, i) == FieldNo(f) * 100 + tag * 10 + i
Series(f, tag, n) == Array([i \in 1..n |-> Sample(f, tag, i)])

(* How a fetch ends: the fetch promise rejects, the body is no JSON, or the *)
(* body parses.  A parsed body has n timestamps (n = -1: no timestamps      *)
(* field) and metric arrays that are "aligned" with them, "skewed" (one     *)
(* element longer) or "sparse" (the metric fields are missing).             *)
Shapes == {"aligned", "skewed", "sparse"}

Failure(kind) == [kind |-> kind, tag |-> 0, n |-> 0, shape |-> "aligned"]
Answer(tag, n, shape) == [kind |-> "ok", tag |-> tag, n |-> n, shape |-> shape]

SeriesAnswers(tags) ==
    {Failure(k) : k \in {"reject", "badjson"}}
    \cup {Answer(t, -1, "aligned") : t \in tags}
    \cup {Answer(t, n, sh) : t \in tags, n \in 0..MaxLen, sh \in Shapes}

Metric(f, r) ==
    CASE r.shape = "aligned" -> Series(f, r.tag, Max(r.n, 0))
      [] r.shape = "skewed"  -> Series(f, r.tag, Max(r.n, 0) + 1)
      [] r.shape = "sparse"  -> Undefined

(* The parsed body of /api/history and of /api/long-term-history.           *)
SeriesData(r) ==
    [timestamps  |-> IF r.n < 0 THEN Undefined ELSE Series("timestamps", r.tag, r.n),
     ping        |-> Metric("ping", r),
     jitter      |-> Metric("jitter", r),
     packet_loss |-> Metric("packet_loss", r),
     quality     |-> Metric("quality", r),
     signal      |-> Metric("signal", r)]

-----------------------------------------------------------------------------
(* part_000: charts                                                         *)

ChartIds == {"latencyChart", "lossChart", "historyPingChart", "historyQualityChart",
             "historyLossChart", "historySignalChart"}

(* part_000:73-101, 122-142, 248-274 ...   new Chart(ctx, {data: {labels:   *)
(* [], datasets: [{data: []}, ...]}}), or the handle left undefined when    *)
(* the canvas is not on the page.                                           *)
NewChart(id, nsets) ==
    [exists |-> id \in dom,
     labels |-> Array(<<>>),
     datasets |-> [k \in 1..nsets |-> Array(<<>>)]]

(* A guard that lets an empty window through.                               *)
RendersAlways(chart, data) == chart.exists /\ data.timestamps.def

(* part_000:173, 180, 390, 397, 403, 409                                    *)
(*     chart && data.timestamps.length > 0                                  *)
(* Reading .length of a missing timestamps field throws; the caller's catch *)
(* then ends the update.  No statement between the guards can throw, so an  *)
(* update that throws has assigned nothing.                                 *)
Renders(chart, data) ==
    chart.exists /\ data.timestamps.def /\ Len(data.timestamps.v) > 0

(* An update that appends the new labels to the old ones.                   *)
MergedInto(chart, data, sets) ==
    IF Renders(chart, data)
    THEN [chart EXCEPT !.labels = Array(chart.labels.v \o data.timestamps.v),
                       !.datasets = sets]
    ELSE chart

(* part_000:174-177 ...   labels and datasets are assigned, not merged.     *)
Rendered(chart, data, sets) ==
    IF Renders(chart, data)
    THEN [chart EXCEPT !.labels = data.timestamps, !.datasets = sets]
    ELSE chart

(* The outcome of a fetch as the try block sees it: a parsed body, or the   *)
(* exception that sends control to the catch (part_000:185, 414, 460).      *)
Parsed(r) == r.kind = "ok"

-----------------------------------------------------------------------------
(* part_000: the score-summary panel                                        *)

BarNames == {"packet_loss", "ping", "connection", "jitter"}

(* part_000:444-447   the element-id prefix of each sub-score's bar.        *)
BarPrefix(name) ==
    CASE name = "packet_loss" -> "lt-loss"
      [] name = "ping"        -> "lt-ping"
      [] name = "connection"  -> "lt-conn"
      [] name = "jitter"      -> "lt-jitter"

(* How a fetch of /api/longterm-score ends.  grade: the grade string as its *)
(* characters, or Undefined; details: "full", "partial" (no ping entry),    *)
(* "none" (no details field) or "over" (sub-scores outside 0..100).         *)

ScoreFailure(kind) ==
    [kind |-> kind, tag |-> 0, grade |-> Undefined, details |-> "none"]
ScoreAnswer(tag, grade, details) ==
    [kind |-> "ok", tag |-> tag, grade |-> grade, details |-> details]

(* The sub-scores the provider reports for a period.                        *)
SubScore(tag, name) ==
    CASE name = "packet_loss" -> IF tag = 1 THEN 100 ELSE 49
      [] name = "ping"        -> IF tag = 1 THEN 80 ELSE 50
      [] name = "connection"  -> IF tag = 1 THEN 79 ELSE 0
      [] name = "jitter"      -> IF tag = 1 THEN 95 ELSE 20

(* Sub-scores of an answer that does not keep to 0..100.                    *)
OverScore(name) ==
    CASE name = "packet_loss" -> 150
      [] name = "ping"        -> -5
      [] name = "connection"  -> 101
      [] name = "jitter"      -> 100

(* The parsed body of /api/longterm-score.                                  *)
ScoreData(r) ==
    [grade   |-> r.grade,
     score   |-> 100 - 30 * r.tag,
     message |-> r.tag,
     record_count   |-> 1000 * r.tag,
     hours_analyzed |-> IF r.tag = 1 THEN 24 ELSE 168,
     details |-> [def  |-> r.details # "none",
                  subs |-> [b \in BarNames |->
                              [def   |-> ~(r.details = "partial" /\ b = "ping"),
                               score |-> IF r.details = "over" THEN OverScore(b)
                                         ELSE SubScore(r.tag, b)]]]]

(* part_000:432-436   the grade class.                                      *)
StartsWith(g, c) == g # <<>> /\ Head(g) = c

GradeClass(g) ==
    IF StartsWith(g, "A") THEN "grade-a"
    ELSE IF StartsWith(g, "B") THEN "grade-b"
    ELSE IF StartsWith(g, "C") THEN "grade-c"
    ELSE IF g = <<"D">> THEN "grade-d"
    ELSE "grade-e"

(* part_000:444-447   data.details.<name>?.score || 0                       *)
DetailScore(details, name) ==
    IF details.subs[name].def THEN details.subs[name].score ELSE 0

(* part_000:474-476 *)
BarClass(score) ==
    IF score >= 80 THEN "score-high"
    ELSE IF score >= 50 THEN "score-mid"
    ELSE "score-low"

(* part_000:465-478   updateDetailBar *)
updateDetailBar(bars, name, score) ==
    IF (BarPrefix(name) \o "-bar") \in dom /\ (BarPrefix(name) \o "-score") \in dom
    THEN [bars EXCEPT ![name] = [width |-> score, text |-> score,
                                 classes |-> {"detail-fill", BarClass(score)}]]
    ELSE bars

(* part_000:453-458   the stats markup, by the four values it interpolates. *)
StatsHtml(data) ==
    <<data.record_count, data.hours_analyzed,
      IF data.details.subs["ping"].def THEN 10 * data.message ELSE 0,
      IF data.details.subs["packet_loss"].def THEN data.message ELSE 0>>

(* The panel as the page's markup delivers it.                              *)
InitPanel ==
    [gradeText    |-> <<"-">>,
     gradeClasses |-> {"score-grade"},
     scoreText    |-> -1,
     messageText  |-> 0,
     bars  |-> [b \in BarNames |-> [width |-> 0, text |-> 0, classes |-> {"detail-fill"}]],
     stats |-> <<0, 0, 0, 0>>]

(* part_000:428-459   the try block of updateLongtermScore after the body   *)
(* has parsed.  A statement that throws (a null element, startsWith on a    *)
(* missing grade) ends the update there; what ran before it stays.          *)
PanelAfter(p, data) ==
    LET p1 == [p EXCEPT !.gradeText = IF data.grade.def THEN data.grade.v ELSE <<>>,
                        !.gradeClasses = {"score-grade"}]
        p2 == [p1 EXCEPT !.gradeClasses = {"score-grade", GradeClass(data.grade.v)}]
        p3 == [p2 EXCEPT !.scoreText = data.score]
        p4 == [p3 EXCEPT !.messageText = data.message]
        b1 == updateDetailBar(p4.bars, "packet_loss", DetailScore(data.details, "packet_loss"))
        b2 == updateDetailBar(b1, "ping", DetailScore(data.details, "ping"))
        b3 == updateDetailBar(b2, "connection", DetailScore(data.details, "connection"))
        b4 == updateDetailBar(b3, "jitter", DetailScore(data.details, "jitter"))
        p5 == IF data.details.def THEN [p4 EXCEPT !.bars = b4] ELSE p4
        p6 == [p5 EXCEPT !.stats = StatsHtml(data)]
    IN  IF "lt-grade" \notin dom THEN p
        ELSE IF ~data.grade.def THEN p1
        ELSE IF "lt-score" \notin dom THEN p2
        ELSE IF "lt-message" \notin dom THEN p3
        ELSE IF ~data.details.def THEN p4
        ELSE IF "lt-stats" \notin dom THEN p5
        ELSE p6

-----------------------------------------------------------------------------
(* part_000: timers, clicks and fetch completions                           *)

NoPeriod == ""     \* the default argument period = null, and a timer's call

HistoryRequest       == [path |-> "/api/history", arg |-> "seconds=60"]
LongHistoryRequest(p) == [path |-> "/api/long-term-history", arg |-> p]
ScoreRequest(p)      == [path |-> "/api/longterm-score", arg |-> p]

Remove(q, i) == SubSeq(q, 1, i - 1) \o SubSeq(q, i + 1, Len(q))

NoAnswer      == Failure("none")
NoScoreAnswer == ScoreFailure("none")

(* What lastEvent records of a handler of part_000: the handler, the period *)
(* it was given or asked for, the answer it processed and, for a short-term *)
(* tick or completion, retry: the last completion of /api/history failed    *)
(* and only short-term ticks have run since; applied: the completion wrote  *)
(* its answer into a chart; stale: it did so after the answer of a fetch    *)
(* issued later had been written.                                           *)
DashEvent(op, period, r, s) ==
    [op |-> op, period |-> period, r |-> r, s |-> s, retry |-> FALSE,
     applied |-> FALSE, stale |-> FALSE]

AfterFailedHistory ==
    \/ lastEvent.op = "historyDone" /\ lastEvent.r.kind # "ok"
    \/ lastEvent.op = "shortTick" /\ lastEvent.retry

(* A call without a period that falls back to 'day'.                        *)
PeriodResetByTimer(cur, period) == IF period # NoPeriod THEN period ELSE "day"

(* part_000:382-384, 420-422   if (period) currentPeriod = period           *)
PeriodAfter(cur, period) == IF period # NoPeriod THEN period ELSE cur

(* A click that leaves the other buttons as they are.                       *)
ActiveToggled(active, p) == active \cup {p}

(* part_000:485-486   every button loses 'active', the clicked one gets it. *)
ActiveAfterClick(active, p) == {p}

(* part_000:170   the call of updateCharts up to its first await.           *)
FetchHistory ==
    /\ Len(shortQ) < MaxInFlight
    /\ shortQ' = Append(shortQ, HistoryRequest)
    /\ overtaken' = Append(overtaken, FALSE)

(* part_000:382-387   the call of updateHistoryCharts up to its first await *)
FetchLongHistory(cur) ==
    /\ Len(histQ) < MaxInFlight
    /\ histQ' = Append(histQ, LongHistoryRequest(cur))

(* part_000:420-425   the call of updateLongtermScore up to its first await *)
FetchScore(cur) ==
    /\ Len(scoreQ) < MaxInFlight
    /\ scoreQ' = Append(scoreQ, ScoreRequest(cur))

(* part_000:512   setTimeout(updateCharts, 500) *)
StartupCharts ==
    /\ "updateCharts" \notin started
    /\ started' = started \cup {"updateCharts"}
    /\ FetchHistory
    /\ lastEvent' = DashEvent("startupCharts", NoPeriod, NoAnswer, NoScoreAnswer)
    /\ UNCHANGED <<appVars, chartVars, currentPeriod, activeBtns, panel, histQ, scoreQ,
                   selected, colorVars, pageVars>>

(* part_000:513   setTimeout(updateHistoryCharts, 1000); a timeout runs     *)
(* after the timeouts set before it with a shorter delay.                   *)
StartupHistory ==
    /\ "updateCharts" \in started
    /\ "updateHistoryCharts" \notin started
    /\ started' = started \cup {"updateHistoryCharts"}
    /\ currentPeriod' = PeriodAfter(currentPeriod, NoPeriod)
    /\ FetchLongHistory(currentPeriod')
    /\ lastEvent' = DashEvent("startupHistory", NoPeriod, NoAnswer, NoScoreAnswer)
    /\ UNCHANGED <<appVars, chartVars, activeBtns, panel, shortQ, overtaken, scoreQ,
                   selected, colorVars, pageVars>>

(* part_000:514   setTimeout(updateLongtermScore, 1500) *)
StartupScore ==
    /\ "updateHistoryCharts" \in started
    /\ "updateLongtermScore" \notin started
    /\ started' = started \cup {"updateLongtermScore"}
    /\ currentPeriod' = PeriodAfter(currentPeriod, NoPeriod)
    /\ FetchScore(currentPeriod')
    /\ lastEvent' = DashEvent("startupScore", NoPeriod, NoAnswer, NoScoreAnswer)
    /\ UNCHANGED <<appVars, chartVars, activeBtns, panel, shortQ, overtaken, histQ,
                   selected, colorVars, pageVars>>

(* part_000:503   setInterval(updateCharts, 1000); its first tick follows   *)
(* the 500 ms timeout of line 512.                                          *)
ShortTick ==
    /\ "updateCharts" \in intervals
    /\ "updateCharts" \in started
    /\ FetchHistory
    /\ lastEvent' = [DashEvent("shortTick", NoPeriod, NoAnswer, NoScoreAnswer) EXCEPT
                        !.retry = AfterFailedHistory]
    /\ UNCHANGED <<appVars, chartVars, currentPeriod, activeBtns, panel, histQ, scoreQ,
                   started, selected, colorVars, pageVars>>

(* part_000:506-509   the 60 s interval: updateHistoryCharts() then         *)
(* updateLongtermScore(); its first tick follows the timeouts of lines 513  *)
(* and 514.                                                                 *)
LongTick ==
    /\ "longTerm" \in intervals
    /\ {"updateHistoryCharts", "updateLongtermScore"} \subseteq started
    /\ currentPeriod' = PeriodAfter(PeriodAfter(currentPeriod, NoPeriod), NoPeriod)
    /\ FetchLongHistory(PeriodAfter(currentPeriod, NoPeriod))
    /\ FetchScore(currentPeriod')
    /\ lastEvent' = DashEvent("longTick", NoPeriod, NoAnswer, NoScoreAnswer)
    /\ UNCHANGED <<appVars, chartVars, activeBtns, panel, shortQ, overtaken,
                   started, selected, colorVars, pageVars>>

(* part_000:483-492   the click listener of the button whose data-period is *)
(* p.                                                                       *)
ClickPeriod(p) ==
    /\ activeBtns' = ActiveAfterClick(activeBtns, p)
    /\ currentPeriod' = PeriodAfter(PeriodAfter(currentPeriod, p), p)
    /\ FetchLongHistory(PeriodAfter(currentPeriod, p))
    /\ FetchScore(currentPeriod')
    /\ selected' = p
    /\ lastEvent' = DashEvent("click", p, NoAnswer, NoScoreAnswer)
    /\ UNCHANGED <<appVars, chartVars, panel, shortQ, overtaken, started, colorVars, pageVars>>

(* A score update that is held back while a series fetch is pending.        *)
ScoreWaitsForHistory(r) == Parsed(r) /\ histQ = <<>>

(* part_000:424-426, 460-462   updateLongtermScore awaits its own fetch in  *)
(* its own try block: its update runs when its own body has parsed.         *)
ScoreApplies(r) == Parsed(r)

(* The answer r of /api/history is written into a short-term chart.         *)
Applies(r) ==
    Parsed(r) /\ (\/ Renders(latencyChart, SeriesData(r))
                  \/ Renders(lossChart, SeriesData(r)))

(* A completion whose catch block clears the one-second interval.           *)
HistoryDoneClearingTimer(i, r) ==
    /\ i \in 1..Len(shortQ)
    /\ shortQ' = Remove(shortQ, i)
    /\ LET data == SeriesData(r) IN
         IF Parsed(r)
         THEN /\ latencyChart' = Rendered(latencyChart, data, <<data.ping, data.jitter>>)
              /\ lossChart' = Rendered(lossChart, data, <<data.packet_loss>>)
         ELSE UNCHANGED <<latencyChart, lossChart>>
    /\ intervals' = IF Parsed(r) /\ r.n >= 0 THEN intervals ELSE intervals \ {"updateCharts"}
    /\ LET applied == Applies(r) IN
         /\ overtaken' = Remove([j \in 1..Len(overtaken) |->
                                    overtaken[j] \/ (applied /\ j < i)], i)
         /\ lastEvent' = [DashEvent("historyDone", NoPeriod, r, NoScoreAnswer) EXCEPT
                             !.retry = AfterFailedHistory,
                             !.applied = applied,
                             !.stale = applied /\ overtaken[i]]
    /\ UNCHANGED <<appVars, historyPingChart, historyQualityChart, historyLossChart,
                   historySignalChart, currentPeriod, activeBtns, panel, histQ, scoreQ,
                   started, selected, colorVars, dom>>

(* part_000:171-187   updateCharts from the fetch's completion on.  Nothing *)
(* in it compares the fetch with the fetches issued after it.               *)
HistoryDone(i, r) ==
    /\ i \in 1..Len(shortQ)
    /\ shortQ' = Remove(shortQ, i)
    /\ LET data == SeriesData(r) IN
         IF Parsed(r)
         THEN /\ latencyChart' = Rendered(latencyChart, data, <<data.ping, data.jitter>>)
              /\ lossChart' = Rendered(lossChart, data, <<data.packet_loss>>)
         ELSE UNCHANGED <<latencyChart, lossChart>>
    /\ LET applied == Applies(r) IN
         /\ overtaken' = Remove([j \in 1..Len(overtaken) |->
                                    overtaken[j] \/ (applied /\ j < i)], i)
         /\ lastEvent' = [DashEvent("historyDone", NoPeriod, r, NoScoreAnswer) EXCEPT
                             !.retry = AfterFailedHistory,
                             !.applied = applied,
                             !.stale = applied /\ overtaken[i]]
    /\ UNCHANGED <<appVars, historyPingChart, historyQualityChart, historyLossChart,
                   historySignalChart, currentPeriod, activeBtns, panel, histQ, scoreQ,
                   started, selected, colorVars, pageVars>>

(* A completion that writes the long-term loss data into the short-term     *)
(* loss chart, as if both loss charts were one handle.                      *)
LongHistoryDoneSharingLoss(i, r) ==
    /\ i \in 1..Len(histQ)
    /\ Parsed(r) => r.tag = PeriodNo(histQ[i].arg)
    /\ histQ' = Remove(histQ, i)
    /\ LET data == SeriesData(r) IN
         IF Parsed(r)
         THEN /\ historyPingChart' = Rendered(historyPingChart, data, <<data.ping, data.jitter>>)
              /\ historyQualityChart' = Rendered(historyQualityChart, data, <<data.quality>>)
              /\ lossChart' = Rendered(lossChart, data, <<data.packet_loss>>)
              /\ historySignalChart' = Rendered(historySignalChart, data, <<data.signal>>)
         ELSE UNCHANGED <<historyPingChart, historyQualityChart, lossChart,
                          historySignalChart>>
    /\ lastEvent' = DashEvent("longHistoryDone", histQ[i].arg, r, NoScoreAnswer)
    /\ UNCHANGED <<appVars, latencyChart, historyLossChart, currentPeriod, activeBtns, panel,
                   shortQ, overtaken, scoreQ, started, selected, colorVars, pageVars>>

(* part_000:388-416   updateHistoryCharts from the fetch's completion on.   *)
(* The provider answers for the period the request names.                   *)
LongHistoryDone(i, r) ==
    /\ i \in 1..Len(histQ)
    /\ Parsed(r) => r.tag = PeriodNo(histQ[i].arg)
    /\ histQ' = Remove(histQ, i)
    /\ LET data == SeriesData(r) IN
         IF Parsed(r)
         THEN /\ historyPingChart' = Rendered(historyPingChart, data, <<data.ping, data.jitter>>)
              /\ historyQualityChart' = Rendered(historyQualityChart, data, <<data.quality>>)
              /\ historyLossChart' = Rendered(historyLossChart, data, <<data.packet_loss>>)
              /\ historySignalChart' = Rendered(historySignalChart, data, <<data.signal>>)
         ELSE UNCHANGED <<historyPingChart, historyQualityChart, historyLossChart,
                          historySignalChart>>
    /\ lastEvent' = DashEvent("longHistoryDone", histQ[i].arg, r, NoScoreAnswer)
    /\ UNCHANGED <<appVars, latencyChart, lossChart, currentPeriod, activeBtns, panel,
                   shortQ, overtaken, scoreQ, started, selected, colorVars, pageVars>>

(* part_000:426-462   updateLongtermScore from the fetch's completion on.   *)
ScoreDone(i, r) ==
    /\ i \in 1..Len(scoreQ)
    /\ Parsed(r) => r.tag = PeriodNo(scoreQ[i].arg)
    /\ scoreQ' = Remove(scoreQ, i)
    /\ panel' = IF ScoreApplies(r) THEN PanelAfter(panel, ScoreData(r)) ELSE panel
    /\ lastEvent' = DashEvent("scoreDone", scoreQ[i].arg, NoAnswer, r)
    /\ UNCHANGED <<appVars, chartVars, currentPeriod, activeBtns, shortQ, overtaken, histQ,
                   started, selected, colorVars, pageVars>>

-----------------------------------------------------------------------------
(* part_000: the packet-loss bar colours                                    *)

PerPercent == 10     \* a packet-loss value is held in 1/PerPercent of a percent
MaxLoss    == 7      \* largest packet-loss value drawn, in percent

RawValues == {[def |-> TRUE, n |-> v] : v \in 0..(MaxLoss * PerPercent)}
             \cup {[def |-> FALSE, n |-> 0]}

(* part_000:131, 325   context.raw || 0 *)
RawOrZero(raw) == IF raw.def THEN raw.n ELSE 0

(* A colour callback whose bands are closed below.                          *)
lossColorAtLeast(raw) ==
    LET value == RawOrZero(raw) IN
    IF value >= 5 * PerPercent THEN "rgba(239, 68, 68, 0.8)"
    ELSE IF value >= 1 * PerPercent THEN "rgba(245, 158, 11, 0.8)"
    ELSE IF value > 0 THEN "rgba(245, 158, 11, 0.5)"
    ELSE "rgba(16, 185, 129, 0.3)"

(* part_000:130-136   backgroundColor of the short-term loss chart          *)
lossColor(raw) ==
    LET value == RawOrZero(raw) IN
    IF value > 5 * PerPercent THEN "rgba(239, 68, 68, 0.8)"
    ELSE IF value > 1 * PerPercent THEN "rgba(245, 158, 11, 0.8)"
    ELSE IF value > 0 THEN "rgba(245, 158, 11, 0.5)"
    ELSE "rgba(16, 185, 129, 0.3)"

(* part_000:324-330   backgroundColor of the long-term loss chart           *)
historyLossColor(raw) ==
    LET value == RawOrZero(raw) IN
    IF value > 5 * PerPercent THEN "rgba(239, 68, 68, 0.8)"
    ELSE IF value > 1 * PerPercent THEN "rgba(245, 158, 11, 0.8)"
    ELSE IF value > 0 THEN "rgba(245, 158, 11, 0.5)"
    ELSE "rgba(16, 185, 129, 0.3)"

(* Chart.js draws a bar of the short-term loss chart: it calls the         *)
(* callback with the bar's context.                                        *)
DrawLossBar(raw) ==
    /\ lossBarRaw' = raw
    /\ lossBarColor' = lossColor(raw)
    /\ UNCHANGED <<appVars, dashVars, historyLossBarRaw, historyLossBarColor, pageVars, lastEvent>>

(* Chart.js draws a bar of the long-term loss chart. *)
DrawHistoryLossBar(raw) ==
    /\ historyLossBarRaw' = raw
    /\ historyLossBarColor' = historyLossColor(raw)
    /\ UNCHANGED <<appVars, dashVars, lossBarRaw, lossBarColor, pageVars, lastEvent>>

-----------------------------------------------------------------------------
(* The page                                                                 *)

BarIds == {BarPrefix(b) \o "-bar" : b \in BarNames}
          \cup {BarPrefix(b) \o "-score" : b \in BarNames}

AllIds == ChartIds \cup BarIds
          \cup {"current-time", "lt-grade", "lt-score", "lt-message", "lt-stats"}

(* Pages: the full page, and pages that lack display regions.               *)
ShortPages == {AllIds, AllIds \ {"latencyChart"}}

(* The state after both DOMContentLoaded handlers (app.js:96-104,           *)
(* part_000:497-515) have run on the page d.                                *)
Loaded(d) ==
    /\ dom = d
    /\ lastQualityScore = 100
    /\ hidden = FALSE
    /\ timeText = IF "current-time" \in d THEN "12:00:00" ELSE ""   \* app.js:98
    /\ track = 0
    /\ fired = {}
    /\ audioContext = "null"
    /\ contextsCreated = 0
    /\ intervals = {"updateTime", "updateCharts", "longTerm"}   \* app.js:99, part_000:503, 506
    /\ latencyChart = NewChart("latencyChart", 2)
    /\ lossChart = NewChart("lossChart", 1)
    /\ historyPingChart = NewChart("historyPingChart", 2)
    /\ historyQualityChart = NewChart("historyQualityChart", 1)
    /\ historyLossChart = NewChart("historyLossChart", 1)
    /\ historySignalChart = NewChart("historySignalChart", 1)
    /\ currentPeriod = "day"
    /\ activeBtns = {"day"}
    /\ panel = InitPanel
    /\ shortQ = <<>>
    /\ overtaken = <<>>
    /\ histQ = <<>>
    /\ scoreQ = <<>>
    /\ selected = "none"
    /\ lossBarRaw = [def |-> FALSE, n |-> 0]
    /\ lossBarColor = ""
    /\ historyLossBarRaw = [def |-> FALSE, n |-> 0]
    /\ historyLossBarColor = ""

DashLoaded(pages) ==
    /\ \E d \in pages : Loaded(d)
    /\ started = {}
    /\ lastEvent = DashEvent("load", NoPeriod, NoAnswer, NoScoreAnswer)

(* The answers drawn.  Every specification draws failures, empty answers   *)
(* and well-formed answers; the specification of the short-term sync draws *)
(* the malformed ones too.                                                  *)
CoreSeriesAnswers(tags) ==
    {Failure("reject")}
    \cup {Answer(t, n, "aligned") : t \in tags, n \in 0..MaxLen}
    \cup {Answer(t, 0, "skewed") : t \in tags}
CoreScoreAnswers ==
    {ScoreFailure("reject")} \cup {ScoreAnswer(t, Array(<<"A", "+">>), "full") : t \in 1..2}

(* The grade strings and the answers of /api/longterm-score drawn for the   *)
(* score panel.                                                             *)
Grades == {<<"A">>, <<"A", "+">>, <<"B", "+">>, <<"C">>, <<"D">>, <<"D", "+">>, <<"E">>}

ScoreAnswers ==
    {ScoreFailure(k) : k \in {"reject", "badjson"}}
    \cup {ScoreAnswer(t, Array(g), "full") : t \in 1..2, g \in Grades}
    \cup {ScoreAnswer(t, Array(<<"B", "+">>), d) : t \in 1..2, d \in {"partial", "none", "over"}}
    \cup {ScoreAnswer(t, Undefined, "full") : t \in 1..2}

(* Pages that lack an element of the score panel.                           *)
PanelPages ==
    {AllIds} \cup {AllIds \ {id} : id \in {"lt-grade", "lt-score", "lt-ping-bar", "lt-stats"}}

(* ---- short-term sync (part_000:168-188, 503, 512) ---- *)
InitShort == DashLoaded(ShortPages)

NextShort ==
    \/ StartupCharts
    \/ ShortTick
    \/ \E i \in 1..MaxInFlight, r \in SeriesAnswers(1..MaxTag) : HistoryDone(i, r)

SpecShort == InitShort /\ [][NextShort]_vars

(* ---- every timer, click and completion of part_000 ---- *)
Init == DashLoaded({AllIds})

Next ==
    \/ StartupCharts
    \/ StartupHistory
    \/ StartupScore
    \/ ShortTick
    \/ LongTick
    \/ \E p \in Periods : ClickPeriod(p)
    \/ \E i \in 1..MaxInFlight, r \in CoreSeriesAnswers({1}) : HistoryDone(i, r)
    \/ \E i \in 1..MaxInFlight, r \in CoreSeriesAnswers(1..2) : LongHistoryDone(i, r)
    \/ \E i \in 1..MaxInFlight, r \in CoreScoreAnswers : ScoreDone(i, r)

Spec == Init /\ [][Next]_vars

(* ---- the polling loops under fair timers: every timer that is set     ---- *)
(* ---- fires again, every fetch settles                                 ---- *)
LivePages == {AllIds, AllIds \ {"latencyChart"}, AllIds \ {"historyPingChart", "lt-score"}}

LiveSeriesAnswers ==
    {Failure("reject"), Failure("badjson"), Answer(1, -1, "aligned"), Answer(1, 1, "aligned")}

InitLive == DashLoaded(LivePages)

HistorySettles     == \E r \in LiveSeriesAnswers : HistoryDone(1, r)
LongHistorySettles == \E r \in LiveSeriesAnswers : LongHistoryDone(1, r)
ScoreSettles       == \E r \in CoreScoreAnswers : ScoreDone(1, r)

NextLive ==
    \/ StartupCharts
    \/ StartupHistory
    \/ StartupScore
    \/ ShortTick
    \/ LongTick
    \/ HistorySettles
    \/ LongHistorySettles
    \/ ScoreSettles

SpecLive ==
    /\ InitLive /\ [][NextLive]_vars
    /\ WF_vars(StartupCharts) /\ WF_vars(StartupHistory) /\ WF_vars(StartupScore)
    /\ WF_vars(ShortTick) /\ WF_vars(LongTick)
    /\ WF_vars(HistorySettles) /\ WF_vars(LongHistorySettles) /\ WF_vars(ScoreSettles)

(* ---- period selection while every fetch succeeds with a non-empty answer ---- *)
GoodSeriesAnswers == {Answer(PeriodNo(p), n, "aligned") : p \in Periods, n \in 1..MaxLen}
GoodScoreAnswers  == {ScoreAnswer(PeriodNo(p), Array(<<"A", "+">>), "full") : p \in Periods}

NextPeriod ==
    \/ \E p \in Periods : ClickPeriod(p)
    \/ \E i \in 1..MaxInFlight, r \in GoodSeriesAnswers : LongHistoryDone(i, r)
    \/ \E i \in 1..MaxInFlight, r \in GoodScoreAnswers : ScoreDone(i, r)

SpecPeriod == Init /\ [][NextPeriod]_vars

(* ---- the score panel: clicks and the completions of their fetches ---- *)
InitPanelSpec == DashLoaded(PanelPages)

NextPanel ==
    \/ \E p \in Periods : ClickPeriod(p)
    \/ LongHistoryDone(1, Failure("reject"))
    \/ \E r \in ScoreAnswers : ScoreDone(1, r)

SpecPanel == InitPanelSpec /\ [][NextPanel]_vars

(* ---- the handlers of app.js, on a page whose charts and score panel ---- *)
(* ---- are updated meanwhile                                          ---- *)
InitWatcher ==
    /\ \E d \in {AllIds, AllIds \ {"current-time"}} : Loaded(d)
    /\ started = {}
    /\ lastEvent = NoAppEvent

NextWatcher ==
    \/ \E present \in BOOLEAN, id \in TargetIds, text \in Texts : AfterSwap(present, id, text)
    \/ \E key \in Keys, ctrl \in BOOLEAN, meta \in BOOLEAN : KeyDown(key, ctrl, meta)
    \/ VisibilityChange
    \/ \E now \in Times : UpdateTime(now)
    \/ StartupCharts
    \/ \E r \in {Failure("reject"), Answer(1, 1, "aligned")} : HistoryDone(1, r)
    \/ StartupHistory
    \/ StartupScore
    \/ \E r \in CoreScoreAnswers : ScoreDone(1, r)

SpecWatcher == InitWatcher /\ [][NextWatcher]_vars

(* ---- key presses and visibility changes while the short-term sync runs ---- *)
NextInput ==
    \/ \E key \in Keys, ctrl \in BOOLEAN, meta \in BOOLEAN : KeyDown(key, ctrl, meta)
    \/ VisibilityChange
    \/ \E now \in Times : UpdateTime(now)
    \/ StartupCharts
    \/ ShortTick
    \/ \E r \in {Failure("reject"), Answer(1, 1, "aligned")} : HistoryDone(1, r)

SpecInput == InitWatcher /\ [][NextInput]_vars

(* ---- the alert tone beside the quality watcher ---- *)
InitTone ==
    /\ Loaded(AllIds)
    /\ started = {}
    /\ lastEvent = NoAppEvent

NextTone ==
    \/ \E ctxOk \in BOOLEAN, oscOk \in BOOLEAN : PlayAlertSound(ctxOk, oscOk)
    \/ \E text \in Texts : AfterSwap(TRUE, "quality-display", text)

SpecTone == InitTone /\ [][NextTone]_vars

(* ---- the bar colour callbacks ---- *)
InitColor ==
    /\ Loaded(AllIds)
    /\ started = {}
    /\ lastEvent = DashEvent("load", NoPeriod, NoAnswer, NoScoreAnswer)

NextColor ==
    \/ \E raw \in RawValues : DrawLossBar(raw)
    \/ \E raw \in RawValues : DrawHistoryLossBar(raw)

SpecColor == InitColor /\ [][NextColor]_vars

-----------------------------------------------------------------------------
(* Claims                                                                   *)

AppOps == {"none", "afterSwap", "keydown", "visibilitychange", "updateTime"}

(* The last handler was an htmx:afterSwap that called checkForAlerts.        *)
Observed == lastEvent.op = "afterSwap" /\ lastEvent.called

(* C1: an observation raises the alert exactly when the stored previous     *)
(* score is at least 50 and the observed score is below 50, so it is not    *)
(* raised again while the score stays low; over the observations 100, 70,   *)
(* 40, 30, 60, 45 from the start it is raised exactly at the third (40) and *)
(* the sixth (45).                                                          *)
C1_AlertOnDownwardCrossing ==
    /\ Observed => (lastEvent.alert <=> (lastEvent.prev >= 50 /\ lastEvent.score < 50))
    /\ (lastEvent.op \in AppOps /\ ~Observed) => ~lastEvent.alert
    /\ track = Len(ExampleSeq) => fired = {3, 6}

C1_Witness ==
    /\ track = Len(ExampleSeq)
    /\ Observed /\ lastEvent.alert /\ lastEvent.prev = 60 /\ lastEvent.score = 45

(* C2: lastQualityScore starts at 100; a handler that calls checkForAlerts  *)
(* leaves it equal to the score passed, alert or not, and no other handler  *)
(* (clock tick, key press, visibility change, chart update, score-panel     *)
(* update) changes it.                                                      *)
C2_StoredScoreFollowsObservation ==
    /\ lastQualityScore = 100
    /\ [][IF lastEvent'.op = "afterSwap" /\ lastEvent'.called
          THEN lastQualityScore' = lastEvent'.score
          ELSE lastQualityScore' = lastQualityScore]_vars

C2_Witness ==
    /\ Observed /\ ~lastEvent.alert
    /\ lastEvent.prev = 40 /\ lastEvent.score = 60 /\ lastQualityScore = 60

(* C3: the score observed on a swap of the quality display is the integer   *)
(* the quality-score region renders, for every rendered integer in 0..100,  *)
(* and 100 when the text holds no integer; so a drop from a stored score of *)
(* at least 50 to a rendered integer below 50 raises the alert.             *)
C3_ScrapedScoreIsRenderedInteger ==
    Observed =>
        LET p == parseInt(lastEvent.text) IN
        /\ (~p.nan /\ p.n \in 0..100) => lastEvent.score = p.n
        /\ p.nan => lastEvent.score = 100
        /\ (~p.nan /\ p.n \in 0..49 /\ lastEvent.prev >= 50) => lastEvent.alert

Aligned(chart) ==
    chart.exists =>
        /\ chart.labels.def
        /\ \A k \in 1..Len(chart.datasets) :
              /\ chart.datasets[k].def
              /\ Len(chart.datasets[k].v) = Len(chart.labels.v)

(* C4: in every reachable state every chart's label array and each of its   *)
(* dataset arrays have the same length: an answer whose metric arrays       *)
(* differ in length from its timestamps, or are missing, is not rendered.   *)
C4_ChartsIndexAligned ==
    /\ Aligned(latencyChart) /\ Aligned(lossChart)
    /\ Aligned(historyPingChart) /\ Aligned(historyQualityChart)
    /\ Aligned(historyLossChart) /\ Aligned(historySignalChart)

EmptyAnswer(e) ==
    /\ e.op \in {"historyDone", "longHistoryDone"}
    /\ e.r.kind = "ok" /\ e.r.n = 0

(* C5: a completion of /api/history or /api/long-term-history whose body    *)
(* parses and holds an empty timestamps array leaves every chart's labels   *)
(* and datasets as they were.                                               *)
C5_EmptyWindowIsNoOp ==
    [][EmptyAnswer(lastEvent') => chartVars' = chartVars]_vars

C5_Witness ==
    /\ EmptyAnswer(lastEvent)
    /\ lastEvent.op = "longHistoryDone"
    /\ Len(latencyChart.labels.v) > 0 /\ Len(lossChart.labels.v) > 0
    /\ Len(historyPingChart.labels.v) > 0 /\ Len(historySignalChart.labels.v) > 0

ShortChartsHold(latency, loss, data) ==
    /\ latency.exists =>
          /\ latency.labels = data.timestamps
          /\ latency.datasets = <<data.ping, data.jitter>>
    /\ loss.exists =>
          /\ loss.labels = data.timestamps
          /\ loss.datasets = <<data.packet_loss>>

FailedHistory(e) == e.op = "historyDone" /\ e.r.kind \in {"reject", "badjson"}
RetriedHistory(e) == e.op = "historyDone" /\ e.retry /\ e.r.kind = "ok"

(* C6: a completion of /api/history that failed (rejected fetch, body that  *)
(* is no JSON) leaves both short-term charts as they were; when the         *)
(* completion after a failed one parses, each short-term chart on the page  *)
(* holds exactly the arrays of that answer.                                 *)
C6_Original ==
    [][/\ FailedHistory(lastEvent') =>
             (latencyChart' = latencyChart /\ lossChart' = lossChart)
       /\ RetriedHistory(lastEvent') =>
             ShortChartsHold(latencyChart', lossChart', SeriesData(lastEvent'.r))]_vars

(* C6 as amended: a completion of /api/history that failed leaves both      *)
(* short-term charts as they were; when the completion after a failed one   *)
(* parses and holds a non-empty timestamps array, each short-term chart on  *)
(* the page holds exactly the arrays of that answer.                        *)
C6_FailureThenSuccess ==
    [][/\ FailedHistory(lastEvent') =>
             (latencyChart' = latencyChart /\ lossChart' = lossChart)
       /\ (RetriedHistory(lastEvent') /\ lastEvent'.r.n > 0) =>
             ShortChartsHold(latencyChart', lossChart', SeriesData(lastEvent'.r))]_vars

C6_Witness ==
    /\ RetriedHistory(lastEvent) /\ lastEvent.r.n > 0 /\ lastEvent.r.tag = 2
    /\ latencyChart.exists /\ lossChart.exists
    /\ ShortChartsHold(latencyChart, lossChart, SeriesData(lastEvent.r))

PanelShows(p, data) ==
    /\ p.gradeText = data.grade.v
    /\ p.scoreText = data.score
    /\ p.messageText = data.message
    /\ \A b \in BarNames : p.bars[b].text = data.details.subs[b].score
    /\ p.stats[1] = data.record_count

LongChartsHold(pingC, qualityC, lossC, signalC, data) ==
    /\ pingC.labels = data.timestamps
    /\ pingC.datasets = <<data.ping, data.jitter>>
    /\ qualityC.labels = data.timestamps
    /\ qualityC.datasets = <<data.quality>>
    /\ lossC.labels = data.timestamps
    /\ lossC.datasets = <<data.packet_loss>>
    /\ signalC.labels = data.timestamps
    /\ signalC.datasets = <<data.signal>>

(* C7: in the long-term sync the series fetch and the score fetch are       *)
(* isolated: a completion of /api/longterm-score changes no chart, leaves   *)
(* the panel as it was when it failed and puts its answer on the panel when *)
(* it parsed, whatever became of the series fetch; a completion of          *)
(* /api/long-term-history leaves the panel as it was, leaves the long-term  *)
(* charts as they were when it failed and puts its non-empty answer on the  *)
(* four long-term charts, whatever became of the score fetch.               *)
C7_PartialFailureIsolation ==
    [][/\ lastEvent'.op = "scoreDone" =>
             /\ chartVars' = chartVars
             /\ lastEvent'.s.kind = "ok" => PanelShows(panel', ScoreData(lastEvent'.s))
             /\ lastEvent'.s.kind # "ok" => panel' = panel
       /\ lastEvent'.op = "longHistoryDone" =>
             /\ panel' = panel
             /\ latencyChart' = latencyChart /\ lossChart' = lossChart
             /\ (lastEvent'.r.kind = "ok" /\ lastEvent'.r.n > 0) =>
                    LongChartsHold(historyPingChart', historyQualityChart',
                                   historyLossChart', historySignalChart',
                                   SeriesData(lastEvent'.r))
             /\ lastEvent'.r.kind # "ok" =>
                    UNCHANGED <<historyPingChart, historyQualityChart,
                                historyLossChart, historySignalChart>>]_vars

(* The series fetch of the first cycle has failed after its score fetch put *)
(* the day's score on the panel: the panel keeps it, the charts are empty.  *)
C7_Witness ==
    /\ lastEvent.op = "longHistoryDone" /\ lastEvent.r.kind = "reject"
    /\ histQ = <<>> /\ scoreQ = <<>> /\ selected = "none"
    /\ PanelShows(panel, ScoreData(ScoreAnswer(1, Array(<<"A", "+">>), "full")))
    /\ historyPingChart.labels.v = <<>>

(* C8: a click on the control of period p issues exactly one request to     *)
(* /api/long-term-history and one to /api/longterm-score, both for p, and   *)
(* no other request, and leaves that control the only active one.           *)
C8_ClickSelectsAndFetchesOnce ==
    [][lastEvent'.op = "click" =>
          /\ histQ' = Append(histQ, [path |-> "/api/long-term-history",
                                     arg |-> lastEvent'.period])
          /\ scoreQ' = Append(scoreQ, [path |-> "/api/longterm-score",
                                       arg |-> lastEvent'.period])
          /\ shortQ' = shortQ
          /\ activeBtns' = {lastEvent'.period}]_vars

C8_Witness ==
    /\ lastEvent.op = "click" /\ lastEvent.period = "day"
    /\ selected = "day" /\ activeBtns = {"day"}
    /\ Len(histQ) = 2 /\ histQ[1].arg = "week" /\ histQ[2].arg = "day"
    /\ Len(scoreQ) = 1 /\ scoreQ[1].arg = "day"

TimerOps == {"startupHistory", "startupScore", "longTick"}

(* C9: the active period is 'day' until the first click and afterwards the  *)
(* period of the most recent click; a timer's call (no period supplied)     *)
(* leaves it as it is and requests the series and the score for it.         *)
C9_PeriodPersists ==
    /\ [](currentPeriod = IF selected = "none" THEN "day" ELSE selected)
    /\ [][lastEvent'.op \in TimerOps =>
             /\ currentPeriod' = currentPeriod
             /\ lastEvent'.op \in {"startupHistory", "longTick"} =>
                    histQ' = Append(histQ, [path |-> "/api/long-term-history",
                                            arg |-> currentPeriod])
             /\ lastEvent'.op \in {"startupScore", "longTick"} =>
                    scoreQ' = Append(scoreQ, [path |-> "/api/longterm-score",
                                              arg |-> currentPeriod])
             /\ lastEvent'.op = "startupHistory" => scoreQ' = scoreQ
             /\ lastEvent'.op = "startupScore" => histQ' = histQ]_vars

C9_Witness ==
    /\ lastEvent.op = "longTick" /\ selected = "week" /\ currentPeriod = "week"
    /\ histQ = <<[path |-> "/api/long-term-history", arg |-> "week"]>>
    /\ scoreQ = <<[path |-> "/api/longterm-score", arg |-> "week"]>>

High    == "rgba(239, 68, 68, 0.8)"
Medium  == "rgba(245, 158, 11, 0.8)"
Low     == "rgba(245, 158, 11, 0.5)"
Nominal == "rgba(16, 185, 129, 0.3)"

Drawn(raw, color) == raw.def /\ color # ""

ColourOfValue(v, color) ==
    /\ color = High <=> v > 5 * PerPercent
    /\ color = Medium <=> (1 * PerPercent < v /\ v <= 5 * PerPercent)
    /\ color = Low <=> (0 < v /\ v <= 1 * PerPercent)
    /\ color = Nominal <=> v = 0

(* C10: the colour of a packet-loss bar of either loss chart depends on its *)
(* value v alone: high-severity iff v > 5, medium iff 1 < v <= 5, low iff   *)
(* 0 < v <= 1, nominal iff v = 0 (v in percent, 0 <= v); both charts give   *)
(* the same colour to the same value.                                       *)
C10_LossColourBands ==
    /\ Drawn(lossBarRaw, lossBarColor) => ColourOfValue(lossBarRaw.n, lossBarColor)
    /\ Drawn(historyLossBarRaw, historyLossBarColor) =>
          ColourOfValue(historyLossBarRaw.n, historyLossBarColor)
    /\ (Drawn(lossBarRaw, lossBarColor) /\ Drawn(historyLossBarRaw, historyLossBarColor)
        /\ lossBarRaw = historyLossBarRaw) => lossBarColor = historyLossBarColor

C10_Witness ==
    /\ lossBarRaw = [def |-> TRUE, n |-> 5 * PerPercent] /\ lossBarColor = Medium
    /\ historyLossBarRaw = [def |-> TRUE, n |-> 5 * PerPercent + 1]
    /\ historyLossBarColor = High

(* The class the leading character of a grade stands for.                   *)
LeadingClass(g) ==
    IF g = <<>> THEN "grade-e"
    ELSE CASE Head(g) = "A" -> "grade-a"
           [] Head(g) = "B" -> "grade-b"
           [] Head(g) = "C" -> "grade-c"
           [] Head(g) = "D" -> "grade-d"
           [] OTHER         -> "grade-e"

(* The last handler was a completion of /api/longterm-score whose body      *)
(* parsed and holds a grade string, on a page that has the grade element.   *)
GradeShown ==
    /\ lastEvent.op = "scoreDone" /\ lastEvent.s.kind = "ok"
    /\ lastEvent.s.grade.def /\ "lt-grade" \in dom

(* C11: after an update of the score panel the grade element carries        *)
(* exactly one grade class, the class of the grade's leading character: A   *)
(* grade-a, B grade-b, C grade-c, D grade-d (so for "D+"), any other        *)
(* grade-e.                                                                 *)
C11_GradeClassByLeadingCharacter ==
    GradeShown =>
        panel.gradeClasses = {"score-grade", LeadingClass(lastEvent.s.grade.v)}

Clamped(s) == IF s < 0 THEN 0 ELSE IF s > 100 THEN 100 ELSE s

(* The sub-score an answer holds under a name, 0 when it holds none.        *)
SubScoreOrZero(r, name) ==
    LET sub == ScoreData(r).details.subs[name] IN IF sub.def THEN sub.score ELSE 0

(* The last handler was a completion of /api/longterm-score that reached    *)
(* the detail bars: the body parsed and holds a grade and details, and the  *)
(* page has the grade, score and message elements.                          *)
BarsShown ==
    /\ lastEvent.op = "scoreDone" /\ lastEvent.s.kind = "ok"
    /\ lastEvent.s.grade.def /\ lastEvent.s.details # "none"
    /\ {"lt-grade", "lt-score", "lt-message"} \subseteq dom

(* C12: after an update from a score answer each detail bar on the page has *)
(* the width of its sub-score s clamped to 0..100 and, beside detail-fill,  *)
(* the class score-high iff s >= 80, score-mid iff 50 <= s < 80, score-low  *)
(* otherwise; a sub-score the answer lacks counts as 0 and the bars after   *)
(* it are still updated.                                                    *)
C12_DetailBarWidthAndClass ==
    BarsShown =>
        \A b \in BarNames :
            ({BarPrefix(b) \o "-bar", BarPrefix(b) \o "-score"} \subseteq dom) =>
                LET s == SubScoreOrZero(lastEvent.s, b) IN
                /\ panel.bars[b].width = Clamped(s)
                /\ panel.bars[b].classes =
                      {"detail-fill",
                       IF s >= 80 THEN "score-high"
                       ELSE IF s >= 50 THEN "score-mid" ELSE "score-low"}

(* Every part of the panel p shows the parsed body data.                    *)
PanelReflects(p, data) ==
    /\ data.grade.def /\ data.details.def
    /\ p.gradeText = data.grade.v
    /\ p.gradeClasses = {"score-grade", GradeClass(data.grade.v)}
    /\ p.scoreText = data.score
    /\ p.messageText = data.message
    /\ \A b \in BarNames :
          /\ p.bars[b].text = DetailScore(data.details, b)
          /\ p.bars[b].width = DetailScore(data.details, b)
    /\ p.stats = StatsHtml(data)

(* C19: a completion of /api/longterm-score leaves the panel either with    *)
(* every part (grade text, grade class, score, message, detail bars, stats) *)
(* showing its answer or with every part as it was; an answer that lacks a  *)
(* field, or a page that lacks a panel element, never leaves some parts new *)
(* and others old.                                                          *)
C19_PanelReplacedWholesale ==
    [][lastEvent'.op = "scoreDone" =>
          \/ panel' = panel
          \/ PanelReflects(panel', ScoreData(lastEvent'.s))]_vars

(* C13: no failure stops polling.  Whatever fetches failed, bodies were     *)
(* malformed or regions were missing, both polling intervals stay set, a    *)
(* short-term fetch and a long-term fetch are issued again and again, and a *)
(* non-empty answer that follows a failed one is written into the           *)
(* short-term charts.                                                       *)
C13_PollingSurvivesFailures ==
    /\ []({"updateCharts", "longTerm"} \subseteq intervals)
    /\ []<>(lastEvent.op = "shortTick")
    /\ []<>(lastEvent.op = "longTick")
    /\ [][(RetriedHistory(lastEvent') /\ lastEvent'.r.n > 0) =>
             ShortChartsHold(latencyChart', lossChart', SeriesData(lastEvent'.r))]_vars

(* A short-term tick has issued a fetch after the fetch before it failed.   *)
C13_Witness ==
    /\ lastEvent.op = "shortTick" /\ lastEvent.retry
    /\ Len(shortQ) = 1 /\ latencyChart.labels.v = <<>>

C15_ShortcutRouting ==
    [][lastEvent'.op = "keydown" =>
          LET plain == ~lastEvent'.ctrl /\ ~lastEvent'.meta IN
          /\ lastEvent'.refresh = (IF lastEvent'.text = <<"r">> /\ plain THEN 1 ELSE 0)
          /\ lastEvent'.overlay = (IF lastEvent'.text = <<"o">> /\ plain THEN 1 ELSE 0)
          /\ UNCHANGED <<appVars, dashVars, colorVars, pageVars>>]_vars

C15_Witness ==
    /\ lastEvent.op = "keydown" /\ lastEvent.text = <<"o">>
    /\ ~lastEvent.ctrl /\ ~lastEvent.meta
    /\ lastEvent.overlay = 1 /\ lastEvent.refresh = 0
    /\ hidden

(* C16: at most one audio context is ever constructed: a call of            *)
(* playAlertSound constructs one only while none is held, and a call made   *)
(* while one is held keeps that one.                                        *)
C16_OneAudioContext ==
    /\ [](contextsCreated <= 1)
    /\ [](audioContext # "null" <=> contextsCreated = 1)
    /\ [][(lastEvent'.op = "playAlertSound" /\ audioContext # "null") =>
             UNCHANGED <<audioContext, contextsCreated>>]_vars

(* A later call has found the context of an earlier one and returned.       *)
C16_Witness ==
    /\ lastEvent.op = "playAlertSound" /\ lastEvent.reused /\ ~lastEvent.threw
    /\ audioContext = "context" /\ contextsCreated = 1

(* C17: a call of playAlertSound returns normally to its caller although    *)
(* constructing the audio context or creating the oscillator fails; an      *)
(* observation that raises the alert leaves the stored score equal to the   *)
(* observed one.                                                            *)
C17_AudioFailureContained ==
    /\ lastEvent.op = "playAlertSound" => ~lastEvent.threw
    /\ (Observed /\ lastEvent.alert) => lastQualityScore = lastEvent.score

(* C18: the answer of a fetch of /api/history is never written into the     *)
(* short-term charts after the answer of a fetch issued later has been      *)
(* written: the charts never go back from a later request's data to an      *)
(* earlier request's.                                                       *)
C18_NoStaleShortTermAnswer ==
    lastEvent.op = "historyDone" => ~lastEvent.stale

(* C20: each chart is written by one sync path only.  A completion of       *)
(* /api/history leaves the four long-term charts as they were, a completion *)
(* of /api/long-term-history leaves the two short-term charts as they were, *)
(* a completion of /api/longterm-score and every other handler leave all    *)
(* six charts as they were, in every interleaving of the completions.       *)
C20_ChartsWrittenByOnePath ==
    [][/\ lastEvent'.op = "historyDone" =>
             UNCHANGED <<historyPingChart, historyQualityChart,
                         historyLossChart, historySignalChart>>
       /\ lastEvent'.op = "longHistoryDone" => UNCHANGED <<latencyChart, lossChart>>
       /\ lastEvent'.op \notin {"historyDone", "longHistoryDone"} =>
             UNCHANGED chartVars]_vars

(* The three paths have completed in turn; the short-term charts hold the   *)
(* short-term answer and the long-term charts the week's answer.            *)
C20_Witness ==
    /\ lastEvent.op = "scoreDone" /\ lastEvent.s.kind = "ok"
    /\ ShortChartsHold(latencyChart, lossChart, SeriesData(Answer(1, 1, "aligned")))
    /\ LongChartsHold(historyPingChart, historyQualityChart, historyLossChart,
                      historySignalChart, SeriesData(Answer(2, 1, "aligned")))

(* No long-term fetch is in flight after a period was selected.             *)
Quiescent == selected # "none" /\ histQ = <<>> /\ scoreQ = <<>>

(* C21: once every long-term fetch has been answered (all answers parsed    *)
(* and non-empty, delivered in any order), the four long-term charts and    *)
(* the score panel show the data of the active period, not that of a period *)
(* selected before it.                                                      *)
C21_DisplayBelongsToActivePeriod ==
    Quiescent =>
        /\ \E n \in 1..MaxLen :
              LongChartsHold(historyPingChart, historyQualityChart, historyLossChart,
                             historySignalChart,
                             SeriesData(Answer(PeriodNo(currentPeriod), n, "aligned")))
        /\ PanelShows(panel, ScoreData(ScoreAnswer(PeriodNo(currentPeriod),
                                                   Array(<<"A", "+">>), "full")))

=============================================================================
